---- MODULE Spec2Model ----
(***************************************************************************)
(* Model of the timesheet format parser of taxi                            *)
(* (taxi/timesheet/parser.py, taxi/timesheet/flags.py).                    *)
(*                                                                         *)
(* A text is a sequence of one-character strings, so that the regular      *)
(* expressions of the parser, strip(), splitlines() and the regeneration   *)
(* of an entry line from its token tuple are computed character by         *)
(* character.  A datetime.time is a record [h, m], a datetime.date a       *)
(* record [y, m, d], a float a reduced fraction [num, den].                *)
(***************************************************************************)
EXTENDS Integers, Sequences, FiniteSets, TLC

(***************************************************************************)
(* Characters and character classes of Python's re module (ASCII part).    *)
(***************************************************************************)
Digits == {"0", "1", "2", "3", "4", "5", "6", "7", "8", "9"}

Letters ==
    {"a", "b", "c", "d", "e", "f", "g", "h", "i", "j", "k", "l", "m",
     "n", "o", "p", "q", "r", "s", "t", "u", "v", "w", "x", "y", "z",
     "A", "B", "C", "D", "E", "F", "G", "H", "I", "J", "K", "L", "M",
     "N", "O", "P", "Q", "R", "S", "T", "U", "V", "W", "X", "Y", "Z"}

\* the control characters "\x0b" (vertical tab), "\x1f" (unit separator),
\* and "\x1c", "\x1d", "\x1e" (file, group and record separator)
VT == ""

US == ""

InformationSeparators == {"", "", ""}

\* \s of re on str, and the characters str.strip() removes
Whitespace ==
    {" ", "\t", "\n", "\r", "\f", VT, US} \cup InformationSeparators

\* the characters at which str.splitlines() ends a line ("\r\n" is one end)
LineBoundaries == {"\n", "\r", "\f", VT} \cup InformationSeparators

\* \w
WordChars == Letters \cup Digits \cup {"_"}

\* [?\w_-]
AliasChars == WordChars \cup {"?", "_", "-"}

\* the characters a..b of s, as a Python slice s[a-1:b]: bounds outside the
\* sequence are clipped
Slice(s, a, b) ==
    LET lo == IF a < 1 THEN 1 ELSE a
        hi == IF b > Len(s) THEN Len(s) ELSE b
    IN  IF lo > hi THEN <<>> ELSE SubSeq(s, lo, hi)

DigitValue(c) ==
    CASE c = "0" -> 0 [] c = "1" -> 1 [] c = "2" -> 2 [] c = "3" -> 3
      [] c = "4" -> 4 [] c = "5" -> 5 [] c = "6" -> 6 [] c = "7" -> 7
      [] c = "8" -> 8 [] c = "9" -> 9

DigitChar(n) ==
    CASE n = 0 -> "0" [] n = 1 -> "1" [] n = 2 -> "2" [] n = 3 -> "3"
      [] n = 4 -> "4" [] n = 5 -> "5" [] n = 6 -> "6" [] n = 7 -> "7"
      [] n = 8 -> "8" [] n = 9 -> "9"

\* the number written by a sequence of digits
RECURSIVE Decimal(_)
Decimal(s) ==
    IF Len(s) = 0 THEN 0
    ELSE 10 * Decimal(Slice(s, 1, Len(s) - 1)) + DigitValue(s[Len(s)])

RECURSIVE Pow10(_)
Pow10(n) == IF n = 0 THEN 1 ELSE 10 * Pow10(n - 1)

RECURSIVE Gcd(_, _)
Gcd(a, b) == IF b = 0 THEN a ELSE Gcd(b, a % b)

Min(S) == CHOOSE x \in S : \A y \in S : x <= y

Max(S) == CHOOSE x \in S : \A y \in S : x >= y

AllIn(s, S) == \A i \in 1..Len(s) : s[i] \in S

\* the last index of the longest run of characters of S that starts at p
\* (p - 1 when the run is empty)
RunEnd(s, p, S) ==
    LET stop == {i \in p..Len(s) : s[i] \notin S}
    IN  IF stop = {} THEN Len(s) ELSE Min(stop) - 1

\* the last index of the longest run of characters outside S starting at p
RunEndNot(s, p, S) ==
    LET stop == {i \in p..Len(s) : s[i] \in S}
    IN  IF stop = {} THEN Len(s) ELSE Min(stop) - 1

\* str.strip()
strip(s) ==
    LET keep == {i \in 1..Len(s) : s[i] \notin Whitespace}
    IN  IF keep = {} THEN <<>> ELSE Slice(s, Min(keep), Max(keep))

\* int(s): an optional sign and digits, which single underscores may
\* separate, with whitespace around them: int('3\n') is 3.  int() does not
\* take "\x1c" to "\x1f" for whitespace, and raises ValueError on any other
\* text, the empty one included.
int(s) ==
    LET space == {" ", "\t", "\n", "\r", "\f", VT}
        keep == {i \in 1..Len(s) : s[i] \notin space}
        body == IF keep = {} THEN <<>> ELSE Slice(s, Min(keep), Max(keep))
        signed == body # <<>> /\ body[1] \in {"+", "-"}
        digits == IF signed THEN Tail(body) ELSE body
        valid ==
            /\ digits # <<>>
            /\ AllIn(digits, Digits \cup {"_"})
            /\ digits[1] # "_"
            /\ digits[Len(digits)] # "_"
            /\ \A i \in 1..(Len(digits) - 1) :
                  ~(digits[i] = "_" /\ digits[i + 1] = "_")
        value == Decimal(SelectSeq(digits, LAMBDA c : c # "_"))
    IN  IF ~valid THEN "ValueError"
        ELSE IF body[1] = "-" THEN 0 - value ELSE value

\* str.replace(old, new) for a one-character old
RECURSIVE replace(_, _, _)
replace(s, old, new) ==
    IF Len(s) = 0 THEN <<>>
    ELSE (IF s[1] = old THEN new ELSE <<s[1]>>)
         \o replace(Slice(s, 2, Len(s)), old, new)

\* str.splitlines(): a line ends at a character of LineBoundaries, "\r\n"
\* being one end; no empty line follows the last end
RECURSIVE splitlines(_)
splitlines(s) ==
    IF Len(s) = 0 THEN <<>>
    ELSE LET ends == {i \in 1..Len(s) : s[i] \in LineBoundaries}
             rest(k) ==
                 IF s[k] = "\r" /\ k < Len(s) /\ s[k + 1] = "\n"
                 THEN Slice(s, k + 2, Len(s))
                 ELSE Slice(s, k + 1, Len(s))
             split(k) == <<Slice(s, 1, k - 1)>> \o splitlines(rest(k))
         IN  IF ends = {} THEN <<s>> ELSE split(Min(ends))

\* str.startswith(c) for a one-character prefix
startswith(s, c) == Len(s) > 0 /\ s[1] = c

(***************************************************************************)
(* datetime.date and datetime.time                                         *)
(***************************************************************************)
NoDate == [y |-> 0, m |-> 0, d |-> 0]

NoTime == [h |-> -1, m |-> -1]

IsLeap(y) == (y % 4 = 0 /\ y % 100 # 0) \/ y % 400 = 0

DaysInMonth(y, m) ==
    IF m = 2 THEN (IF IsLeap(y) THEN 29 ELSE 28)
    ELSE IF m \in {4, 6, 9, 11} THEN 30 ELSE 31

\* datetime.date(y, m, d) raises ValueError outside these ranges
ValidDate(y, m, d) ==
    /\ y \in 1..9999
    /\ m \in 1..12
    /\ d >= 1 /\ d <= DaysInMonth(y, m)

\* datetime.time(h, m) raises ValueError outside these ranges
ValidTime(h, m) == h \in 0..23 /\ m \in 0..59

(***************************************************************************)
(* TimesheetParser.parse_time                                              *)
(***************************************************************************)
\* re.match('^\d{3,}$', t): three digits or more up to the end of t, or up
\* to a final "\n" ($ matches before it)
time_re(t) ==
    LET e == RunEnd(t, 1, Digits)
    IN  e >= 3 /\ (e = Len(t) \/ (e = Len(t) - 1 /\ t[Len(t)] = "\n"))

parse_time(str_time) ==
    LET time(t) ==
            LET minutes == int(Slice(t, Len(t) - 1, Len(t)))
                hours == int(IF Len(t) > 3 THEN Slice(t, 1, 2)
                             ELSE Slice(t, 1, 1))
            IN  IF ~time_re(t)
                THEN [exc |-> "ValueError", time |-> NoTime]
                ELSE IF ~ValidTime(hours, minutes)
                THEN [exc |-> "ValueError", time |-> NoTime]
                ELSE [exc |-> "none", time |-> [h |-> hours, m |-> minutes]]
    IN  time(replace(str_time, ":", <<>>))

(***************************************************************************)
(* TimesheetParser.date_match_re, us_date_match_re and extract_date        *)
(***************************************************************************)
\* a group (\d{1,2}) at p that must be followed by \D: the run of digits at
\* p has one or two digits and a character follows it
DigitGroup12(s, p) ==
    LET e == RunEnd(s, p, Digits)
    IN  [ok |-> e - p + 1 \in {1, 2} /\ e < Len(s), from |-> p, to |-> e]

\* re.match(date_match_re, line): (\d{1,2})\D(\d{1,2})\D(\d{4}|\d{2})
date_match_re(s) ==
    LET g1 == DigitGroup12(s, 1)
        g2 == DigitGroup12(s, g1.to + 2)
        p3 == g2.to + 2
        n3 == RunEnd(s, p3, Digits) - p3 + 1
        l3 == IF n3 >= 4 THEN 4 ELSE 2
    IN  IF g1.ok /\ g2.ok /\ n3 >= 2
        THEN [ok |-> TRUE,
              g1 |-> Slice(s, g1.from, g1.to),
              g2 |-> Slice(s, g2.from, g2.to),
              g3 |-> Slice(s, p3, p3 + l3 - 1)]
        ELSE [ok |-> FALSE, g1 |-> <<>>, g2 |-> <<>>, g3 |-> <<>>]

\* re.match(us_date_match_re, line): (\d{4})\D(\d{1,2})\D(\d{1,2})
us_date_match_re(s) ==
    LET e1 == RunEnd(s, 1, Digits)
        g2 == DigitGroup12(s, 6)
        p3 == g2.to + 2
        n3 == RunEnd(s, p3, Digits) - p3 + 1
        l3 == IF n3 >= 2 THEN 2 ELSE 1
    IN  IF e1 = 4 /\ Len(s) > 4 /\ g2.ok /\ n3 >= 1
        THEN [ok |-> TRUE,
              g1 |-> Slice(s, 1, 4),
              g2 |-> Slice(s, g2.from, g2.to),
              g3 |-> Slice(s, p3, p3 + l3 - 1)]
        ELSE [ok |-> FALSE, g1 |-> <<>>, g2 |-> <<>>, g3 |-> <<>>]

\* datetime.date(y, m, d)
MakeDate(y, m, d) ==
    IF ValidDate(y, m, d)
    THEN [exc |-> "none", date |-> [y |-> y, m |-> m, d |-> d]]
    ELSE [exc |-> "ValueError", date |-> NoDate]

\* extract_date with the century of the current year in place of its
\* millennium
extract_date_Century(line, current_year) ==
    LET current_century == current_year - (current_year % 100)
        date(date_matches) ==
            IF ~date_matches.ok
            THEN [exc |-> "ValueError", date |-> NoDate]
            ELSE IF Len(date_matches.g1) = 4
            THEN MakeDate(int(date_matches.g1), int(date_matches.g2),
                          int(date_matches.g3))
            ELSE IF Len(date_matches.g3) = 2
            THEN MakeDate(current_century + int(date_matches.g3),
                          int(date_matches.g2), int(date_matches.g1))
            ELSE MakeDate(int(date_matches.g3), int(date_matches.g2),
                          int(date_matches.g1))
        first(dm) == date(IF dm.ok THEN dm ELSE us_date_match_re(line))
    IN  first(date_match_re(line))

\* extract_date(line) when datetime.date.today().year is current_year
extract_date(line, current_year) ==
    LET current_millennium == current_year - (current_year % 1000)
        date(date_matches) ==
            IF ~date_matches.ok
            THEN [exc |-> "ValueError", date |-> NoDate]
            ELSE IF Len(date_matches.g1) = 4
            THEN MakeDate(int(date_matches.g1), int(date_matches.g2),
                          int(date_matches.g3))
            ELSE IF Len(date_matches.g3) = 2
            THEN MakeDate(current_millennium + int(date_matches.g3),
                          int(date_matches.g2), int(date_matches.g1))
            ELSE MakeDate(int(date_matches.g3), int(date_matches.g2),
                          int(date_matches.g1))
        first(dm) == date(IF dm.ok THEN dm ELSE us_date_match_re(line))
    IN  first(date_match_re(line))

(***************************************************************************)
(* Floats (decimal numbers of hours) and their text                        *)
(***************************************************************************)
NoHours == [num |-> -1, den |-> 1]

Fraction(n, d) == [num |-> n \div Gcd(n, d), den |-> d \div Gcd(n, d)]

\* float(s) for s matching \d+(\.\d+)?
float(s) ==
    LET dot == {i \in 1..Len(s) : s[i] = "."}
    IN  IF dot = {} THEN Fraction(int(s), 1)
        ELSE LET k == Min(dot)
                 whole == Slice(s, 1, k - 1)
                 frac == Slice(s, k + 1, Len(s))
             IN  Fraction(int(whole \o frac), Pow10(Len(frac)))

\* str(n) for a natural number
RECURSIVE IntText(_)
IntText(n) ==
    IF n < 10 THEN <<DigitChar(n)>>
    ELSE IntText(n \div 10) \o <<DigitChar(n % 10)>>

\* n written on exactly w digits
RECURSIVE Padded(_, _)
Padded(n, w) ==
    IF w = 0 THEN <<>> ELSE Padded(n \div 10, w - 1) \o <<DigitChar(n % 10)>>

\* six.text_type(f) of a float: the shortest decimal, with at least one
\* digit after the point; a float below 0.0001 is written with an exponent
\* (1e-05, 2.5e-05)
FloatText(f) ==
    LET k == Min({j \in 0..9 : Pow10(j) % f.den = 0})
        w == IF k = 0 THEN 1 ELSE k
        scaled == (f.num % f.den) * (Pow10(w) \div f.den)
        \* the digits of f, which is digits / 10^k
        digits == IntText(f.num * (Pow10(k) \div f.den))
        exponent == k - Len(digits) + 1
    IN  IF f.num > 0 /\ exponent > 4
        THEN <<digits[1]>>
             \o (IF Len(digits) > 1 THEN <<".">> \o Tail(digits) ELSE <<>>)
             \o <<"e", "-">> \o Padded(exponent, 2)
        ELSE IntText(f.num \div f.den) \o <<".">> \o Padded(scaled, w)

\* datetime.time.strftime('%H:%M')
strftime(t) == Padded(t.h, 2) \o <<":">> \o Padded(t.m, 2)

(***************************************************************************)
(* TimesheetParser.entry_match_re                                          *)
(*                                                                         *)
(* Every token but the flags and the description is made of characters    *)
(* that are not whitespace and is followed by \s+, so each of them is the  *)
(* whole run of such characters; what backtracking chooses is where the    *)
(* flags token ends (shortest first) and how much of the whitespace        *)
(* before the description is left to it.  `.` matches any character but    *)
(* "\n", and $ matches at the end or before a final "\n".                  *)
(***************************************************************************)
FLAG_IGNORED == 1

FLAG_PUSHED == 2

\* (?:\d{1,2}):?(?:\d{1,2})
IsTimeToken(x) ==
    LET colon == {i \in 1..Len(x) : x[i] = ":"}
    IN  IF colon = {} THEN Len(x) \in 2..4 /\ AllIn(x, Digits)
        ELSE /\ Cardinality(colon) = 1
             /\ Min(colon) - 1 \in {1, 2}
             /\ Len(x) - Min(colon) \in {1, 2}
             /\ \A i \in 1..Len(x) : i \in colon \/ x[i] \in Digits

\* \d+(?:\.\d+)?
IsDurationToken(x) ==
    LET dot == {i \in 1..Len(x) : x[i] = "."}
    IN  IF dot = {} THEN Len(x) >= 1 /\ AllIn(x, Digits)
        ELSE /\ Cardinality(dot) = 1
             /\ Min(dot) > 1 /\ Min(dot) < Len(x)
             /\ \A i \in 1..Len(x) : i \in dot \/ x[i] \in Digits

\* the groups time, start_time, end_time and duration on the token x
TimeGroups(x) ==
    LET dash == {i \in 1..Len(x) : x[i] = "-"}
        a == Slice(x, 1, Min(dash) - 1)
        b == Slice(x, Min(dash) + 1, Len(x))
        none == [ok |-> FALSE, has_start |-> FALSE, start_time |-> <<>>,
                 has_end |-> FALSE, end_time |-> <<>>,
                 has_duration |-> FALSE, duration |-> <<>>]
    IN  IF Cardinality(dash) = 1
           /\ (a = <<>> \/ IsTimeToken(a))
           /\ (b = <<"?">> \/ IsTimeToken(b))
        THEN [none EXCEPT !.ok = TRUE, !.has_start = (a # <<>>),
                          !.start_time = a, !.has_end = TRUE, !.end_time = b]
        ELSE IF IsDurationToken(x)
        THEN [none EXCEPT !.ok = TRUE, !.has_duration = TRUE, !.duration = x]
        ELSE none

\* alias, spacing2, time, spacing3 and description matched from position p
MatchRest(s, p) ==
    LET a_end == RunEnd(s, p, AliasChars)
        s2_end == RunEnd(s, a_end + 1, Whitespace)
        t_end == RunEndNot(s, s2_end + 1, Whitespace)
        tg == TimeGroups(Slice(s, s2_end + 1, t_end))
        ws_end == RunEnd(s, t_end + 1, Whitespace)
        \* where $ matches: at the end of s, or before its final "\n"
        d_end == IF Len(s) > 0 /\ s[Len(s)] = "\n" THEN Len(s) - 1
                 ELSE Len(s)
        \* the ends of \s+ after which .+$ matches: `.` is any character but
        \* "\n"; \s+ takes the longest and gives back what .+ needs
        s3_ends == {k \in (t_end + 1)..ws_end :
                       /\ k < d_end
                       /\ \A i \in (k + 1)..d_end : s[i] # "\n"}
        s3_end == IF s3_ends = {} THEN t_end ELSE Max(s3_ends)
    IN  [ok |-> /\ a_end >= p
                /\ s2_end > a_end
                /\ t_end > s2_end
                /\ tg.ok
                /\ s3_ends # {},
         alias |-> Slice(s, p, a_end),
         spacing2 |-> Slice(s, a_end + 1, s2_end),
         time |-> Slice(s, s2_end + 1, t_end),
         groups |-> tg,
         spacing3 |-> Slice(s, t_end + 1, s3_end),
         description |-> Slice(s, s3_end + 1, d_end)]

\* re.match(entry_match_re, line)
entry_match_re(s) ==
    LET \* the groups, the flags token being flags and the rest matching as rest
        groups(has_flags, flags, spacing1, rest) ==
            [ok |-> rest.ok,
             has_flags |-> has_flags,
             flags |-> flags,
             spacing1 |-> spacing1,
             alias |-> rest.alias,
             spacing2 |-> rest.spacing2,
             time |-> rest.time,
             has_start |-> rest.groups.has_start,
             start_time |-> rest.groups.start_time,
             has_end |-> rest.groups.has_end,
             end_time |-> rest.groups.end_time,
             has_duration |-> rest.groups.has_duration,
             duration |-> rest.groups.duration,
             spacing3 |-> rest.spacing3,
             description |-> rest.description]
        \* the flags token ends at f and the spacing after it at q
        with_flags(f, q) ==
            groups(TRUE, Slice(s, 1, f), Slice(s, f + 1, q),
                   MatchRest(s, q + 1))
        with_shortest(f) == with_flags(f, RunEnd(s, f + 1, Whitespace))
        \* ends: the ends of the flags token after which the rest matches
        match(ends) ==
            IF ends # {} THEN with_shortest(Min(ends))
            ELSE groups(FALSE, <<>>, <<>>, MatchRest(s, 1))
    IN  match({f \in 1..(Len(s) - 1) :
                  /\ \A i \in 1..f : s[i] # "\n"
                  /\ s[f + 1] \in Whitespace
                  /\ MatchRest(s, RunEnd(s, f + 1, Whitespace) + 1).ok})

(***************************************************************************)
(* EntryLine: alias, duration, description, _flags, the token tuple _text  *)
(* and the set _changed_attrs.  A duration is a float (kind "hours"), an   *)
(* int (kind "int") or a tuple (start, end) of times (kind "range"),       *)
(* NoTime standing for None.                                               *)
(***************************************************************************)
Hours(f) == [kind |-> "hours", hours |-> f, start |-> NoTime, end |-> NoTime]

\* a duration given as an int (EntryLine('foobar', 4, 'description'))
Integer(n) == [kind |-> "int", hours |-> Fraction(n, 1), start |-> NoTime,
               end |-> NoTime]

\* the tuple built as (end_time, start_time)
Range_Swapped(a, b) ==
    [kind |-> "range", hours |-> NoHours, start |-> b, end |-> a]

Range(a, b) == [kind |-> "range", hours |-> NoHours, start |-> a, end |-> b]

NoDuration == [kind |-> "none", hours |-> NoHours, start |-> NoTime,
               end |-> NoTime]

NoTokens == <<<<>>, <<>>, <<>>, <<>>, <<>>, <<>>, <<>>>>

\* None, where a text is expected
None == <<"None">>

\* flags_as_text with the symbol of Pushed first
flags_as_text_PushedFirst(e) ==
    (IF FLAG_PUSHED \in e.flags THEN <<"=">> ELSE <<>>)
    \o (IF FLAG_IGNORED \in e.flags THEN <<"?">> ELSE <<>>)

\* EntryLine.flags_as_text: the set {1, 2} is iterated in the order 1, 2
flags_as_text(e) ==
    (IF FLAG_IGNORED \in e.flags THEN <<"?">> ELSE <<>>)
    \o (IF FLAG_PUSHED \in e.flags THEN <<"=">> ELSE <<>>)

\* EntryLine.duration_as_text
duration_as_text(e) ==
    IF e.duration.kind = "range"
    THEN (IF e.duration.start # NoTime THEN strftime(e.duration.start)
          ELSE <<>>)
         \o <<"-">>
         \o (IF e.duration.end # NoTime THEN strftime(e.duration.end)
             ELSE <<"?">>)
    ELSE IF e.duration.kind = "int" THEN IntText(e.duration.hours.num)
    ELSE FloatText(e.duration.hours)

\* EntryLine.__init__: the token tuple is the text given, or is built from
\* the attributes when text is None or empty (flags None is the empty set)
EntryLine(alias, duration, description, flags, text) ==
    LET built(e) ==
            [e EXCEPT !.text =
                <<flags_as_text(e),
                  IF flags_as_text(e) # <<>> THEN <<" ">> ELSE <<>>,
                  alias, <<" ">>, duration_as_text(e), <<" ">>,
                  description>>]
        init(e) == IF text = None \/ text = <<>> THEN built(e) ELSE e
    IN  init([alias |-> alias, duration |-> duration,
              description |-> description, flags |-> flags, text |-> text,
              changed_attrs |-> {}])

NoEntry == EntryLine(<<>>, NoDuration, <<>>, {}, NoTokens)

Spaces(n) == [i \in 1..n |-> " "]

\* ATTRS_POSITION, counted from 1
ATTRS_POSITION(i) ==
    CASE i = 1 -> "flags" [] i = 3 -> "alias" [] i = 5 -> "duration"
      [] i = 7 -> "description" [] OTHER -> "spacing"

\* TextItem with a spacer of max(0, ...) spaces
TextItem_NoMinimum(e, i, prev) ==
    IF ATTRS_POSITION(i) # "spacing"
    THEN IF ATTRS_POSITION(i) \in e.changed_attrs
         THEN CASE i = 1 -> flags_as_text(e)
                [] i = 3 -> e.alias
                [] i = 5 -> duration_as_text(e)
                [] i = 7 -> e.description
         ELSE e.text[i]
    ELSE IF i = 2
    THEN (IF e.flags = {} THEN <<>> ELSE <<" ">>)
    ELSE IF Len(prev) # Len(e.text[i - 1])
    THEN Spaces(Max({0, Len(e.text[i]) - (Len(prev) - Len(e.text[i - 1]))}))
    ELSE e.text[i]

\* the value appended to `line` at position i by the loop of EntryLine.text
\* (prev: the value appended at position i - 1)
TextItem(e, i, prev) ==
    IF ATTRS_POSITION(i) # "spacing"
    THEN IF ATTRS_POSITION(i) \in e.changed_attrs
         THEN CASE i = 1 -> flags_as_text(e)
                [] i = 3 -> e.alias
                [] i = 5 -> duration_as_text(e)
                [] i = 7 -> e.description
         ELSE e.text[i]
    ELSE IF i = 2
    THEN (IF e.flags = {} THEN <<>> ELSE <<" ">>)
    ELSE IF Len(prev) # Len(e.text[i - 1])
    THEN Spaces(Max({1, Len(e.text[i]) - (Len(prev) - Len(e.text[i - 1]))}))
    ELSE e.text[i]

\* EntryLine.text (the property)
EntryText(e) ==
    LET l1 == TextItem(e, 1, <<>>)
        l2 == TextItem(e, 2, l1)
        l3 == TextItem(e, 3, l2)
        l4 == TextItem(e, 4, l3)
        l5 == TextItem(e, 5, l4)
        l6 == TextItem(e, 6, l5)
        l7 == TextItem(e, 7, l6)
    IN  l1 \o l2 \o l3 \o l4 \o l5 \o l6 \o l7

\* the getter of ignored reading the flag of pushed
ignored_Pushed(e) == FLAG_PUSHED \in e.flags

\* FlaggableMixin.ignored and FlaggableMixin.pushed (the getters)
ignored(e) == FLAG_IGNORED \in e.flags

pushed(e) == FLAG_PUSHED \in e.flags

(***************************************************************************)
(* TimesheetParser.parse_entry_line: the entry line, or the exception      *)
(* that leaves the function                                                 *)
(***************************************************************************)
MsgNoMatch == "Line must have an alias, a duration and a description"

MsgDuration == "Duration must be in format hh:mm or hhmm"

MsgNoDate == "Entries must be defined inside a date section"

Raise(exc, msg) == [exc |-> exc, message |-> msg, entry |-> NoEntry]

\* the flags read from the flags group
ParsedFlags(split_line) ==
    (IF split_line.has_flags /\ \E i \in 1..Len(split_line.flags) :
                                    split_line.flags[i] = "?"
     THEN {FLAG_IGNORED} ELSE {})
    \cup
    (IF split_line.has_flags /\ \E i \in 1..Len(split_line.flags) :
                                    split_line.flags[i] = "="
     THEN {FLAG_PUSHED} ELSE {})

parse_entry_line(line) ==
    LET \* st, et: the results of parse_time on the start and the end time
        entry(split_line, st, et) ==
            LET alias == replace(split_line.alias, "?", <<>>)
                tokens == <<split_line.flags, split_line.spacing1,
                            split_line.alias, split_line.spacing2,
                            split_line.time, split_line.spacing3,
                            split_line.description>>
                duration ==
                    IF split_line.has_duration
                    THEN Hours(float(split_line.duration))
                    ELSE Range(st.time, et.time)
            IN  IF ~split_line.ok THEN Raise("ParseError", MsgNoMatch)
                ELSE IF st.exc # "none"
                THEN Raise("ParseError", MsgDuration)
                \* the call of parse_time on the end time is not in a try
                \* block
                ELSE IF et.exc # "none" THEN Raise("ValueError", "")
                \* `duration` is assigned under `if start_time or end_time`
                \* and under `if group('duration') is not None` only
                ELSE IF ~split_line.has_duration /\ st.time = NoTime
                        /\ et.time = NoTime
                THEN Raise("UnboundLocalError", "")
                ELSE [exc |-> "none", message |-> "",
                      entry |-> EntryLine(alias, duration,
                                          split_line.description,
                                          ParsedFlags(split_line), tokens)]
        times(split_line) ==
            entry(split_line,
                  IF split_line.has_start
                  THEN parse_time(split_line.start_time)
                  ELSE [exc |-> "none", time |-> NoTime],
                  IF split_line.has_end /\ split_line.end_time # <<"?">>
                  THEN parse_time(split_line.end_time)
                  ELSE [exc |-> "none", time |-> NoTime])
    IN  times(entry_match_re(line))

(***************************************************************************)
(* The lines yielded by TimesheetParser.parser: TextLine, DateLine and     *)
(* EntryLine                                                               *)
(***************************************************************************)
TextLine(text) ==
    [kind |-> "TextLine", text |-> text, date |-> NoDate, entry |-> NoEntry]

\* the default of the parameter date_format of DateLine: '%d.%m.%Y'
DATE_FORMAT == <<"%", "d", ".", "%", "m", ".", "%", "Y">>

\* date_utils.unicode_strftime(date, date_format) (taxi/utils/date.py), for
\* the directives %d, %m, %Y and %y
RECURSIVE unicode_strftime(_, _)
unicode_strftime(date, date_format) ==
    LET directive(c) ==
            CASE c = "d" -> Padded(date.d, 2)
              [] c = "m" -> Padded(date.m, 2)
              [] c = "Y" -> IntText(date.y)
              [] c = "y" -> Padded(date.y % 100, 2)
              [] OTHER -> <<"%", c>>
    IN  IF Len(date_format) = 0 THEN <<>>
        ELSE IF date_format[1] = "%" /\ Len(date_format) > 1
        THEN directive(date_format[2])
             \o unicode_strftime(date, Slice(date_format, 3,
                                             Len(date_format)))
        ELSE <<date_format[1]>> \o unicode_strftime(date, Tail(date_format))

\* DateLine.__init__: the text given or, when it is None, the date written
\* in date_format
DateLine(date, text, date_format) ==
    [kind |-> "DateLine",
     text |-> IF text # None THEN text
              ELSE unicode_strftime(date, date_format),
     date |-> date, entry |-> NoEntry]

EntryLineOf(e) ==
    [kind |-> "EntryLine", text |-> <<>>, date |-> NoDate, entry |-> e]

NoLine == [kind |-> "none", text |-> <<>>, date |-> NoDate, entry |-> NoEntry]

\* the text property of a line
LineText(l) == IF l.kind = "EntryLine" THEN EntryText(l.entry) ELSE l.text

\* the setter of the text property (TextLine.text, inherited by DateLine):
\* EntryLine overrides the property without a setter
text_setter(l, value) ==
    IF l.kind = "EntryLine" THEN [exc |-> "AttributeError", line |-> l]
    ELSE [exc |-> "none", line |-> [l EXCEPT !.text = value]]

\* ParseError(message), with the attributes line_number and line; the other
\* exceptions leave parse as they are
NoError == [exc |-> "none", message |-> "", line_number |-> 0, line |-> <<>>]

Tab4 == <<" ", " ", " ", " ">>

\* the line as the loop of parser reads it
CleanLine(raw) == replace(strip(raw), "\t", Tab4)

\* parser_line without the check `if current_date is None`
parser_line_NoDateCheck(raw, lineno, cur_date, current_year) ==
    LET fail(l, exc, msg) ==
            [error |-> IF exc = "ParseError"
                       THEN [exc |-> exc, message |-> msg,
                             line_number |-> lineno, line |-> l]
                       ELSE [exc |-> exc, message |-> msg,
                             line_number |-> 0, line |-> <<>>],
             yield |-> NoLine, current_date |-> cur_date]
        yield(x, date) ==
            [error |-> NoError, yield |-> x, current_date |-> date]
        \* d: the result of extract_date(l); r: of parse_entry_line(l)
        body(l, d, r) ==
            IF Len(l) = 0 \/ startswith(l, "#")
            THEN yield(TextLine(l), cur_date)
            ELSE IF d.exc = "none" THEN yield(DateLine(d.date, l, DATE_FORMAT), d.date)
            ELSE IF r.exc # "none" THEN fail(l, r.exc, r.message)
            ELSE yield(EntryLineOf(r.entry), cur_date)
        line(l) == body(l, extract_date(l, current_year), parse_entry_line(l))
    IN  line(CleanLine(raw))

\* parser_line yielding the date header before current_date is assigned: the
\* header carries the date of the section before it
parser_line_StaleDate(raw, lineno, cur_date, current_year) ==
    LET fail(l, exc, msg) ==
            [error |-> IF exc = "ParseError"
                       THEN [exc |-> exc, message |-> msg,
                             line_number |-> lineno, line |-> l]
                       ELSE [exc |-> exc, message |-> msg,
                             line_number |-> 0, line |-> <<>>],
             yield |-> NoLine, current_date |-> cur_date]
        yield(x, date) ==
            [error |-> NoError, yield |-> x, current_date |-> date]
        body(l, d, r) ==
            IF Len(l) = 0 \/ startswith(l, "#")
            THEN yield(TextLine(l), cur_date)
            ELSE IF d.exc = "none" THEN yield(DateLine(cur_date, l, DATE_FORMAT), d.date)
            ELSE IF cur_date = NoDate THEN fail(l, "ParseError", MsgNoDate)
            ELSE IF r.exc # "none" THEN fail(l, r.exc, r.message)
            ELSE yield(EntryLineOf(r.entry), cur_date)
        line(l) == body(l, extract_date(l, current_year), parse_entry_line(l))
    IN  line(CleanLine(raw))

\* one iteration of the loop of TimesheetParser.parser on the line `raw`,
\* numbered lineno
parser_line(raw, lineno, cur_date, current_year) ==
    LET fail(l, exc, msg) ==
            [error |-> IF exc = "ParseError"
                       THEN [exc |-> exc, message |-> msg,
                             line_number |-> lineno, line |-> l]
                       ELSE [exc |-> exc, message |-> msg,
                             line_number |-> 0, line |-> <<>>],
             yield |-> NoLine, current_date |-> cur_date]
        yield(x, date) ==
            [error |-> NoError, yield |-> x, current_date |-> date]
        \* d: the result of extract_date(l); r: of parse_entry_line(l)
        body(l, d, r) ==
            IF Len(l) = 0 \/ startswith(l, "#")
            THEN yield(TextLine(l), cur_date)
            ELSE IF d.exc = "none" THEN yield(DateLine(d.date, l, DATE_FORMAT), d.date)
            ELSE IF cur_date = NoDate THEN fail(l, "ParseError", MsgNoDate)
            ELSE IF r.exc # "none" THEN fail(l, r.exc, r.message)
            ELSE yield(EntryLineOf(r.entry), cur_date)
        line(l) == body(l, extract_date(l, current_year), parse_entry_line(l))
    IN  line(CleanLine(raw))

(***************************************************************************)
(* State                                                                   *)
(***************************************************************************)
VARIABLES
    input,          \* the text passed to TimesheetParser.parse
    today_year,     \* datetime.date.today().year
    pc,             \* "ready", "parsing", "done" (returned), "raised",
                    \* "built" (the collection is built), "new" (a line
                    \* is constructed), "edited" (a text is assigned),
                    \* "started", "reported" (start returned after its
                    \* handler), "propagated" (the exception left start)
    lines,          \* text.strip().splitlines()
    lineno,         \* the number of the line the generator has reached
    yielded,        \* the lines yielded so far
    current_date,   \* current_date of the generator
    collection,     \* the entries of the EntriesCollection built from the lines
    error,          \* the exception that left the call
    arg,            \* the argument of the function called on its own
    entry_line,     \* the EntryLine returned by parse_entry_line
    date_value,     \* the date returned by extract_date
    time_value,     \* the time returned by parse_time
    regrouped,      \* the entries returned by get_entries(regroup=True)
    target,         \* the aggregated entry on which pushed was set (0: none)
    direction,      \* what is_top_down returned or raised ("none": not called)
    command,        \* the arguments, the day and the time of the start command
    appended,       \* the entries appended to the timesheet, with their date
    saved,          \* the timesheet has been saved
    view            \* the errors reported to the view

query_vars == <<regrouped, target, direction>>

start_vars == <<command, appended, saved, view>>

sheet_vars == <<query_vars, start_vars>>

vars == <<input, today_year, pc, lines, lineno, yielded, current_date,
          collection, error, arg, entry_line, date_value, time_value,
          sheet_vars>>

parse_vars == <<input, lines, lineno, yielded, current_date, collection>>

call_vars == <<arg, entry_line, date_value, time_value>>

Years == {1999, 2026}

\* the text made of the lines of ls joined by "\n"
RECURSIVE JoinLines(_)
JoinLines(ls) ==
    IF Len(ls) = 0 THEN <<>>
    ELSE IF Len(ls) = 1 THEN ls[1]
    ELSE ls[1] \o <<"\n">> \o JoinLines(Tail(ls))

(***************************************************************************)
(* TimesheetParser.parse, one line of the generator at a time              *)
(***************************************************************************)
MaxLines == 3

LineCatalog ==
    { <<>>,
      <<"#", " ", "c">>,
      <<"1", ".", "1", ".", "1", "0">>,
      <<"3", "1", ".", "4", ".", "1", "0">>,
      <<"a", " ", "2", " ", "b">>,
      <<"?", " ", " ", "a", " ", "2", " ", "b">>,
      <<"a", " ", "2", " ", "b", " ", "3", " ", "c">>,
      <<"a", " ", "9", ":", "0", "0", "-", "2", "5", ":", "0", "0", " ", "b">>,
      <<"a", " ", "2", "5", ":", "0", "0", "-", "9", ":", "0", "0", " ", "b">>,
      <<"a", " ", "-", "9", "0", "0", " ", "b">>,
      <<"a">>,
      <<"a", "\t", "2", " ", "b">>,
      <<"#", " ", "c", "\f", "1", ".", "1", ".", "1", "0">> }

Texts ==
    {JoinLines(ls) : ls \in UNION {[1..n -> LineCatalog] : n \in 0..MaxLines}}

NoCall ==
    /\ arg = <<>>
    /\ entry_line = NoEntry
    /\ date_value = NoDate
    /\ time_value = NoTime

NoCommand ==
    [alias |-> <<>>, description |-> <<>>, today |-> NoDate, now |-> NoTime]

\* nothing has been asked of the timesheet
NoSheet ==
    /\ regrouped = <<>>
    /\ target = 0
    /\ direction = "none"
    /\ command = NoCommand
    /\ appended = <<>>
    /\ saved = FALSE
    /\ view = <<>>

Init ==
    /\ input \in Texts
    /\ today_year \in Years
    /\ pc = "ready"
    /\ lines = <<>>
    /\ lineno = 0
    /\ yielded = <<>>
    /\ current_date = NoDate
    /\ collection = <<>>
    /\ error = NoError
    /\ NoCall
    /\ NoSheet

\* parse(text): text.strip(), splitlines(), and the generator is created;
\* a text without lines is returned as the empty list at once
parse ==
    /\ pc = "ready"
    /\ lines' = splitlines(strip(input))
    /\ pc' = IF lines' = <<>> THEN "done" ELSE "parsing"
    /\ UNCHANGED <<input, today_year, lineno, yielded, current_date,
                   collection, error, call_vars, sheet_vars>>

\* one iteration of the loop of parser; the list is returned after the last
\* line, and nothing is returned when an exception is raised
parser ==
    /\ pc = "parsing"
    /\ lineno < Len(lines)
    /\ LET n == lineno + 1
           next(step) ==
               /\ lineno' = n
               /\ error' = step.error
               /\ current_date' = step.current_date
               /\ yielded' = IF step.error.exc = "none"
                             THEN Append(yielded, step.yield) ELSE yielded
               /\ pc' = IF step.error.exc # "none" THEN "raised"
                        ELSE IF n = Len(lines) THEN "done" ELSE "parsing"
       IN  next(parser_line(lines[n], n, current_date, today_year))
    /\ UNCHANGED <<input, today_year, lines, collection, call_vars,
                   sheet_vars>>

(***************************************************************************)
(* EntriesCollection (taxi/timesheet/entry.py): the entries of the parsed  *)
(* lines, each in the date section of the last date header before it.  An  *)
(* entry written without start time continues the previous entry of its    *)
(* section.                                                                *)
(***************************************************************************)
Minutes(t) == t.h * 60 + t.m

\* the index in ys of the date header of the section of line i (0: none)
SectionOf(ys, i) ==
    LET ds == {j \in 1..(i - 1) : ys[j].kind = "DateLine"}
    IN  IF ds = {} THEN 0 ELSE Max(ds)

\* the index in ys of the nearest entry before line i in its section (0: none)
PreviousEntry(ys, i) ==
    LET es == {j \in (SectionOf(ys, i) + 1)..(i - 1) :
                  ys[j].kind = "EntryLine"}
    IN  IF es = {} THEN 0 ELSE Max(es)

\* the start time of the entry of line i: the one written, or the end of the
\* previous entry of the section when that entry is a range with an end
StartTime(ys, i) ==
    LET d == ys[i].entry.duration
        p == PreviousEntry(ys, i)
    IN  IF d.kind # "range" THEN NoTime
        ELSE IF d.start # NoTime THEN d.start
        ELSE IF p # 0 /\ ys[p].entry.duration.kind = "range"
                /\ ys[p].entry.duration.end # NoTime
        THEN ys[p].entry.duration.end
        ELSE NoTime

\* the entry of line i in the collection
CollectedEntry(ys, i) ==
    LET e == ys[i].entry
        start == StartTime(ys, i)
        known == e.duration.kind = "range" /\ start # NoTime
                 /\ e.duration.end # NoTime
    IN  [line |-> i,
         date |-> ys[SectionOf(ys, i)].date,
         start |-> start,
         minutes |-> IF known THEN Minutes(e.duration.end) - Minutes(start)
                     ELSE 0,
         ignored |-> \/ ignored(e)
                     \/ e.duration.kind = "range" /\ ~known
                     \/ e.duration.kind = "hours" /\ e.duration.hours.num = 0
                     \/ e.description = <<"?">>]

RECURSIVE CollectFrom(_, _)
CollectFrom(ys, i) ==
    IF i > Len(ys) THEN <<>>
    ELSE (IF ys[i].kind = "EntryLine" THEN <<CollectedEntry(ys, i)>>
          ELSE <<>>)
         \o CollectFrom(ys, i + 1)

\* EntriesCollection(text), once the text is parsed
EntriesCollection ==
    /\ pc = "done"
    /\ collection' = CollectFrom(yielded, 1)
    /\ pc' = "built"
    /\ UNCHANGED <<input, today_year, lines, lineno, yielded, current_date,
                   error, call_vars, sheet_vars>>

\* the texts assigned to the text property of a line
TextValues == { <<"2", ".", "1", ".", "1", "0">> }

\* line.text = value on one of the lines returned or built: once
set_text ==
    /\ pc \in {"done", "new"}
    /\ \E i \in 1..Len(yielded), value \in TextValues :
          LET set(r) ==
                  /\ yielded' = [yielded EXCEPT ![i] = r.line]
                  /\ error' = [NoError EXCEPT !.exc = r.exc]
          IN  set(text_setter(yielded[i], value))
    /\ pc' = "edited"
    /\ UNCHANGED <<input, today_year, lines, lineno, current_date,
                   collection, call_vars, sheet_vars>>

Next == parse \/ parser \/ EntriesCollection \/ set_text

Spec == Init /\ [][Next]_vars

(***************************************************************************)
(* Properties of parse                                                     *)
(***************************************************************************)
\* the texts of the lines yielded so far
YieldedTexts == [i \in 1..Len(yielded) |-> LineText(yielded[i])]

\* C1: for every text that parses without error, the texts of the parsed
\* lines, in order, are exactly the lines of the input text.
C1_RoundTrip == pc = "done" => YieldedTexts = splitlines(input)

\* how a reader of the timesheet classifies a line of the text
IsBlankOrComment(raw) ==
    LET l == CleanLine(raw) IN Len(l) = 0 \/ startswith(l, "#")

IsDate(raw) == extract_date(CleanLine(raw), today_year).exc = "none"

NoDateBefore(k) == \A j \in 1..(k - 1) : ~IsDate(lines[j])

\* C2: every EntryLine yielded is preceded by a DateLine; before the first
\* date header a line that is not blank, not a comment and not a date makes
\* parse raise ParseError "Entries must be defined inside a date section",
\* and a blank or comment line is accepted as a TextLine (of the text of the
\* line, until a text is assigned to it).
C2_EntriesInsideDateSection ==
    /\ \A i \in 1..Len(yielded) :
          yielded[i].kind = "EntryLine"
          => \E j \in 1..(i - 1) : yielded[j].kind = "DateLine"
    /\ \A k \in 1..lineno :
          NoDateBefore(k) =>
             /\ (~IsBlankOrComment(lines[k]) /\ ~IsDate(lines[k]))
                => /\ pc = "raised"
                   /\ lineno = k
                   /\ error.exc = "ParseError"
                   /\ error.message = MsgNoDate
             /\ IsBlankOrComment(lines[k])
                => /\ Len(yielded) >= k
                   /\ yielded[k].kind = "TextLine"
                   /\ pc # "edited"
                      => yielded[k] = TextLine(CleanLine(lines[k]))

\* an entry met before any date header, after a comment that was accepted
C2_Witness ==
    /\ pc = "raised"
    /\ error.message = MsgNoDate
    /\ Len(yielded) >= 1
    /\ yielded[1].kind = "TextLine"
    /\ yielded[1].text # <<>>

\* C4: when parse fails it raises a ParseError on the first offending line,
\* whose line_number is the 1-based position of that line in the text passed
\* to parse and whose line is that line's text.
C4_ErrorLineNumber ==
    pc = "raised" =>
       /\ error.exc = "ParseError"
       /\ error.line_number \in 1..Len(splitlines(input))
       /\ error.line = splitlines(input)[error.line_number]

\* the range of the entry line has a start or an end time that parse_time
\* rejects
BadRangeTime(raw) ==
    LET m == entry_match_re(CleanLine(raw))
    IN  /\ m.ok
        /\ \/ m.has_start /\ parse_time(m.start_time).exc # "none"
           \/ /\ m.has_end /\ m.end_time # <<"?">>
              /\ parse_time(m.end_time).exc # "none"

\* C5: a malformed or out-of-range start or end time makes parse fail with a
\* ParseError that carries the line number; no ValueError leaves parse.
C5_BadTimeIsParseError ==
    (pc = "raised" /\ BadRangeTime(lines[lineno])) =>
       /\ error.exc = "ParseError"
       /\ error.line_number = lineno

(***************************************************************************)
(* FlaggableMixin and EntryLine: add_flag, remove_flag and the setters of  *)
(* ignored and pushed                                                      *)
(***************************************************************************)
\* EntryLine.add_flag(flag)
AddFlag(e, flag) ==
    [exc |-> "none",
     entry |-> [e EXCEPT !.flags = @ \cup {flag},
                         !.changed_attrs = @ \cup {"flags"}]]

\* EntryLine.remove_flag(flag): set.remove raises KeyError on a flag that is
\* not in the set, before _changed_attrs is touched
RemoveFlag(e, flag) ==
    IF flag \notin e.flags THEN [exc |-> "KeyError", entry |-> e]
    ELSE [exc |-> "none",
          entry |-> [e EXCEPT !.flags = @ \ {flag},
                              !.changed_attrs = @ \cup {"flags"}]]

\* EntryLine.__setattr__(attr, value) for one of the tracked attributes
SetAttr(e, attr, value) ==
    [exc |-> "none",
     entry |-> [e EXCEPT ![attr] = value,
                         !.changed_attrs = @ \cup {attr}]]

\* the setters of FlaggableMixin.ignored and FlaggableMixin.pushed
SetFlag(e, flag, value) ==
    IF value THEN AddFlag(e, flag) ELSE RemoveFlag(e, flag)

(***************************************************************************)
(* parse_entry_line called on one line, and the flags of the entry it      *)
(* returns changed afterwards                                              *)
(***************************************************************************)
FlagTokens == { <<"?">>, <<"=">>, <<"=", "?">> }

Spacings == { <<" ">>, <<" ", " ">> }

AliasTokens == { <<"a", "b">>, <<"a", "?">> }

TimeTokens ==
    { <<"2">>,
      <<"1", ".", "5", "0">>,
      <<"9", ":", "0", "0", "-", "1", "0", ":", "1", "5">>,
      <<"-", "1", "0", "0", "0">>,
      <<"9", "0", "0", "-", "?">>,
      <<"-", "?">>,
      <<"2", "5", ":", "0", "0", "-", "9", ":", "0", "0">>,
      <<"9", ":", "0", "0", "-", "1", "0", ":", "6", "1">>,
      <<"-", "1", "2">>,
      <<"x">> }

Descriptions == { <<"b">>, <<"b", " ", "3", " ", "c">>, <<"?">> }

EntryInputs ==
    LET rests == {a \o s2 \o t \o s3 \o d :
                     a \in AliasTokens, s2 \in Spacings, t \in TimeTokens,
                     s3 \in Spacings, d \in Descriptions}
    IN  rests
        \cup {f \o s1 \o r : f \in FlagTokens, s1 \in Spacings, r \in rests}
        \cup { <<>>, <<"a">>, <<"a", " ", "2">>, <<"a", " ", "2", " ", " ">>,
               <<"a", "b", " ", "2", " ", "b", "\n">>,
               <<"a", "b", " ", "2", " ", "\n">>,
               <<"a", "b", " ", "2", " ", "b", "\n", "c">>,
               <<"?", " ", "a", "b", VT, "2", " ", "b", "\n">> }

NoParse ==
    /\ collection = <<>>
    /\ input = <<>>
    /\ lines = <<>>
    /\ lineno = 0
    /\ yielded = <<>>
    /\ current_date = NoDate

InitEntry ==
    /\ arg \in EntryInputs
    /\ today_year = 2026
    /\ pc = "ready"
    /\ error = NoError
    /\ entry_line = NoEntry
    /\ date_value = NoDate
    /\ time_value = NoTime
    /\ NoParse
    /\ NoSheet

call_parse_entry_line ==
    /\ pc = "ready"
    /\ LET return(r) ==
               /\ pc' = IF r.exc = "none" THEN "done" ELSE "raised"
               /\ error' = [NoError EXCEPT !.exc = r.exc,
                                           !.message = r.message]
               /\ entry_line' = r.entry
       IN  return(parse_entry_line(arg))
    /\ UNCHANGED <<parse_vars, today_year, arg, date_value, time_value,
                   sheet_vars>>

\* a call on the entry that returns r: the entry is updated, or the exception
\* of the call is recorded and the entry is left as it was
FlagCall(r) ==
    /\ entry_line' = r.entry
    /\ error' = [NoError EXCEPT !.exc = r.exc]
    /\ UNCHANGED <<parse_vars, today_year, pc, arg, date_value, time_value,
                   sheet_vars>>

add_flag ==
    /\ pc = "done"
    /\ \E flag \in {FLAG_IGNORED, FLAG_PUSHED} :
          FlagCall(AddFlag(entry_line, flag))

remove_flag ==
    /\ pc = "done"
    /\ \E flag \in {FLAG_IGNORED, FLAG_PUSHED} :
          FlagCall(RemoveFlag(entry_line, flag))

set_ignored ==
    /\ pc = "done"
    /\ \E value \in BOOLEAN :
          FlagCall(SetFlag(entry_line, FLAG_IGNORED, value))

set_pushed ==
    /\ pc = "done"
    /\ \E value \in BOOLEAN :
          FlagCall(SetFlag(entry_line, FLAG_PUSHED, value))

\* the time token of the line s is `-?`: no start and an open end
NoBound(s) ==
    entry_match_re(s).ok /\ entry_match_re(s).time = <<"-", "?">>

\* C20: parse_entry_line never returns a range with both ends absent, every
\* entry it returns has either a number of hours or a range with at least
\* one bound, and a line whose time token is `-?` is rejected with a
\* ParseError and with no other kind of exception.
C20_NoBound ==
    /\ (pc = "done" /\ "duration" \notin entry_line.changed_attrs)
       => \/ /\ entry_line.duration.kind = "hours"
             /\ entry_line.duration.hours # NoHours
             /\ entry_line.duration.start = NoTime
             /\ entry_line.duration.end = NoTime
          \/ /\ entry_line.duration.kind = "range"
             /\ entry_line.duration.hours = NoHours
             /\ \/ entry_line.duration.start # NoTime
                \/ entry_line.duration.end # NoTime
    /\ (pc # "ready" /\ NoBound(arg))
       => pc = "raised" /\ error.exc = "ParseError"

\* `ab -? b` has raised UnboundLocalError
C20_UnboundLocalError ==
    /\ pc = "raised"
    /\ arg = <<"a", "b", " ", "-", "?", " ", "b">>
    /\ error.exc = "UnboundLocalError"

\* the step of assigning value to the property of flag
Assigned(flag, value) ==
    /\ pc = "done"
    /\ FlagCall(SetFlag(entry_line, flag, value))

\* C19: assigning a boolean to the ignored or pushed property always
\* succeeds and makes the property read back that boolean; an assignment of
\* the value the property already has raises no error and leaves the flags
\* and the text of the line unchanged.
C19_Assign ==
    [][\A flag \in {FLAG_IGNORED, FLAG_PUSHED}, value \in BOOLEAN :
         Assigned(flag, value)
         => /\ error'.exc = "none"
            /\ (flag \in entry_line'.flags) = value
            /\ (flag \in entry_line.flags) = value
               => /\ entry_line'.flags = entry_line.flags
                  /\ EntryText(entry_line') = EntryText(entry_line)]_vars

\* ignored = False has raised KeyError on the entry of `ab 2 b`, which has
\* no flag
C19_KeyError ==
    /\ pc = "done"
    /\ arg = <<"a", "b", " ", "2", " ", "b">>
    /\ entry_line.flags = {}
    /\ entry_line.changed_attrs = {}
    /\ error.exc = "KeyError"

\* the values assigned to alias and to duration
AliasValues == { <<"a", "b", "c", "d">> }

DurationValues ==
    { Hours([num |-> 5, den |-> 2]), Hours([num |-> 1, den |-> 100000]),
      Integer(4), Range([h |-> 9, m |-> 0], NoTime) }

\* entry.alias = value
set_alias ==
    /\ pc = "done"
    /\ \E value \in AliasValues : FlagCall(SetAttr(entry_line, "alias", value))

\* entry.duration = value
set_duration ==
    /\ pc = "done"
    /\ \E value \in DurationValues :
          FlagCall(SetAttr(entry_line, "duration", value))

\* entry.description = value
set_description ==
    /\ pc = "done"
    /\ \E value \in { <<"z", "z">> } :
          FlagCall(SetAttr(entry_line, "description", value))

\* entry.flags = value: the attribute flags is set and marked as changed,
\* the set _flags is left as it is
set_flags ==
    /\ pc = "done"
    /\ FlagCall(SetAttr(entry_line, "flags", entry_line.flags))

NextEntry ==
    call_parse_entry_line \/ add_flag \/ remove_flag \/ set_ignored
    \/ set_pushed \/ set_alias \/ set_duration \/ set_description
    \/ set_flags

SpecEntry == InitEntry /\ [][NextEntry]_vars

(***************************************************************************)
(* Properties of parse_entry_line and of the text of an entry line         *)
(***************************************************************************)
\* the line read as tokens separated by whitespace: the first token, the
\* second token, and the remainder of the line after the whitespace that
\* follows the second token
FirstToken(s) == Slice(s, 1, RunEndNot(s, 1, Whitespace))

AfterFirst(s) ==
    LET e == RunEndNot(s, 1, Whitespace)
    IN  Slice(s, RunEnd(s, e + 1, Whitespace) + 1, Len(s))

SecondToken(s) == FirstToken(AfterFirst(s))

Remainder(s) == AfterFirst(AfterFirst(s))

\* a time token that denotes a duration: decimal hours, or a range whose
\* times are valid, with at least one bound
IsValidTime(x) == IsTimeToken(x) /\ parse_time(x).exc = "none"

IsValidDuration(x) ==
    \/ IsDurationToken(x)
    \/ LET g == TimeGroups(x)
       IN  /\ g.ok /\ g.has_end
           /\ g.has_start => IsValidTime(g.start_time)
           /\ g.end_time # <<"?">> => IsValidTime(g.end_time)
           /\ g.has_start \/ g.end_time # <<"?">>

\* the value of a valid time token
DurationValue(x) ==
    IF IsDurationToken(x)
    THEN [kind |-> "hours", hours |-> float(x), start |-> NoTime,
          end |-> NoTime]
    ELSE LET g == TimeGroups(x)
         IN  [kind |-> "range", hours |-> NoHours,
              start |-> IF g.has_start THEN parse_time(g.start_time).time
                        ELSE NoTime,
              end |-> IF g.end_time # <<"?">>
                      THEN parse_time(g.end_time).time ELSE NoTime]

\* <alias> <time> <description> with no flags token
IsCanonical(s) ==
    /\ Len(s) > 0
    /\ s[1] \notin Whitespace
    /\ AllIn(FirstToken(s), WordChars \cup {"-", "_"})
    /\ IsValidDuration(SecondToken(s))
    /\ Len(Remainder(s)) > 0

\* C3: an entry line of the form <alias> <time> <description> with no flags
\* token parses to alias = the first token, duration = the value of the
\* second token, description = the whole remainder of the line, no flag.
C3_CanonicalEntry ==
    (pc # "ready" /\ IsCanonical(arg) /\ entry_line.changed_attrs = {}) =>
       /\ pc = "done"
       /\ entry_line.alias = FirstToken(arg)
       /\ entry_line.duration = DurationValue(SecondToken(arg))
       /\ entry_line.description = Remainder(arg)
       /\ entry_line.flags = {}

WithoutMark(x) == replace(x, "?", <<>>)

Has(x, c) == \E i \in 1..Len(x) : x[i] = c

\* C6: a leading flags token containing `?` and an alias ending in `?` both
\* give the alias without the `?` and the Ignored flag; a flags token
\* containing `=` gives the Pushed flag; no flags token and no `?` on the
\* alias give no flag.
C6_IgnoredAndPushed ==
    (pc = "done" /\ entry_line.changed_attrs = {}) =>
       LET t1 == FirstToken(arg)
           t2 == SecondToken(arg)
       IN  /\ (AllIn(t1, {"?", "="}) /\ IsCanonical(AfterFirst(arg))) =>
                /\ entry_line.alias = WithoutMark(t2)
                /\ Has(t1, "?") => ignored(entry_line)
                /\ Has(t1, "=") => pushed(entry_line)
           /\ (Len(t1) > 1 /\ t1[Len(t1)] = "?" /\ IsValidDuration(t2)
               /\ AllIn(Slice(t1, 1, Len(t1) - 1), WordChars)) =>
                /\ entry_line.alias = Slice(t1, 1, Len(t1) - 1)
                /\ ignored(entry_line)
           /\ IsCanonical(arg) => entry_line.flags = {}

\* C8: an EntryLine returned by parse_entry_line on which nothing has been
\* modified regenerates, through text, exactly the line it was parsed from.
C8_UnmodifiedTextIsLine ==
    (pc = "done" /\ entry_line.changed_attrs = {})
    => EntryText(entry_line) = arg

\* the symbols of a flag set, `?` for Ignored then `=` for Pushed
FlagSymbols(flags) ==
    CASE flags = {} -> <<>>
      [] flags = {FLAG_IGNORED} -> <<"?">>
      [] flags = {FLAG_PUSHED} -> <<"=">>
      [] flags = {FLAG_IGNORED, FLAG_PUSHED} -> <<"?", "=">>

\* n spaces
Blank(n) == [i \in 1..n |-> " "]

\* the whitespace of original width w after a field whose length went from
\* old to new
Padding(w, old, new) == IF w - (new - old) >= 1 THEN Blank(w - (new - old))
                        ELSE Blank(1)

\* alias, spacing, duration, spacing and description of the entry e parsed
\* from s, as the regenerated text is expected to show them
ExpectedTail(s, e) ==
    LET t == parse_entry_line(s).entry.text
        a == IF "alias" \in e.changed_attrs THEN e.alias ELSE t[3]
        d == IF "duration" \in e.changed_attrs THEN duration_as_text(e)
             ELSE t[5]
        last == IF "description" \in e.changed_attrs THEN e.description
                ELSE t[7]
    IN  a
        \o (IF "alias" \in e.changed_attrs
            THEN Padding(Len(t[4]), Len(t[3]), Len(a)) ELSE t[4])
        \o d
        \o (IF "duration" \in e.changed_attrs
            THEN Padding(Len(t[6]), Len(t[5]), Len(d)) ELSE t[6])
        \o last

\* the text s ends with tail
EndsWith(s, tail) == Slice(s, Len(s) - Len(tail) + 1, Len(s)) = tail

\* C15: when the alias or the duration of an entry line is changed, the
\* whitespace after the changed field is max(1, original width - (new field
\* length - old field length)) spaces, computed from that field only: the
\* next field keeps its column when the whitespace can absorb the change,
\* the whitespace is never shorter than one space, and the fields that were
\* not changed keep their original text.
C15_Padding ==
    (pc = "done" /\ entry_line.changed_attrs \cap {"alias", "duration"} # {})
    => /\ Len(EntryText(entry_line))
             >= Len(ExpectedTail(arg, entry_line))
       /\ EndsWith(EntryText(entry_line), ExpectedTail(arg, entry_line))
       /\ "flags" \notin entry_line.changed_attrs
          => Slice(EntryText(entry_line), 1,
                   Len(parse_entry_line(arg).entry.text[1]))
                = parse_entry_line(arg).entry.text[1]

\* `ab 2 b` with the alias set to abcd and the duration to 09:00-?: one
\* space is left after each
C15_Witness ==
    /\ pc = "done"
    /\ arg = <<"a", "b", " ", "2", " ", "b">>
    /\ entry_line.changed_attrs = {"alias", "duration"}
    /\ entry_line.alias = <<"a", "b", "c", "d">>
    /\ EntryText(entry_line)
          = <<"a", "b", "c", "d", " ", "0", "9", ":", "0", "0", "-", "?",
              " ", "b">>

\* alias, spacing, duration, spacing and description as they were parsed
OriginalTail(s) ==
    LET t == parse_entry_line(s).entry.text
    IN  t[3] \o t[4] \o t[5] \o t[6] \o t[7]

\* C9: once flags have been added to or removed from a parsed entry line
\* whose other attributes are not modified, its text is the symbols of the
\* current flag set, one space when the set is not empty, and the original
\* alias, spacing, duration and description.
C9_FlagsText ==
    (pc = "done" /\ entry_line.changed_attrs = {"flags"}) =>
       EntryText(entry_line) =
          FlagSymbols(entry_line.flags)
          \o (IF entry_line.flags = {} THEN <<>> ELSE <<" ">>)
          \o OriginalTail(arg)

\* `a 2 b`, parsed without flags, marked as pushed
C9_Witness ==
    /\ pc = "done"
    /\ arg = <<"a", "b", " ", "2", " ", "b">>
    /\ entry_line.flags = {FLAG_PUSHED}
    /\ EntryText(entry_line) = <<"=", " ", "a", "b", " ", "2", " ", "b">>

(***************************************************************************)
(* extract_date called on one string                                       *)
(***************************************************************************)
DayTokens == { <<"1">>, <<"0", "5">>, <<"2", "9">>, <<"3", "1">>, <<"0">> }

MonthTokens == { <<"2">>, <<"0", "4">>, <<"1", "2">>, <<"1", "3">> }

LongYears ==
    { <<"2", "0", "1", "0">>, <<"2", "0", "1", "2">>, <<"0", "0", "9", "9">>,
      <<"0", "0", "0", "0">> }

ShortYears == { <<"1", "2">>, <<"9", "9">>, <<"0", "0">> }

Separators == { <<".">>, <<"/">>, <<" ">>, <<"a">>, <<"_">>, <<>> }

Trailers == { <<>>, <<"7">>, <<" ", "x">> }

DateInputs ==
    {d \o s1 \o m \o s2 \o y \o t :
        d \in DayTokens, s1 \in Separators, m \in MonthTokens,
        s2 \in Separators, y \in LongYears \cup ShortYears, t \in Trailers}
    \cup
    {y \o s1 \o m \o s2 \o d \o t :
        y \in LongYears, s1 \in Separators, m \in MonthTokens,
        s2 \in Separators, d \in DayTokens, t \in Trailers}

InitDate ==
    /\ arg \in DateInputs
    /\ today_year \in Years
    /\ pc = "ready"
    /\ error = NoError
    /\ entry_line = NoEntry
    /\ date_value = NoDate
    /\ time_value = NoTime
    /\ NoParse
    /\ NoSheet

call_extract_date ==
    /\ pc = "ready"
    /\ LET r == extract_date(arg, today_year)
       IN  /\ pc' = IF r.exc = "none" THEN "done" ELSE "raised"
           /\ error' = [NoError EXCEPT !.exc = r.exc]
           /\ date_value' = r.date
    /\ UNCHANGED <<parse_vars, today_year, arg, entry_line, time_value,
                   sheet_vars>>

NextDate == call_extract_date

SpecDate == InitDate /\ [][NextDate]_vars

(***************************************************************************)
(* parse_time called on one string                                         *)
(***************************************************************************)
MaxDigits == 5

TimeDigits == {"0", "1", "2", "4", "6"}

DigitStrings == UNION {[1..n -> TimeDigits] : n \in 1..MaxDigits}

\* strings of digits, the same with a colon somewhere, with one character
\* that is not a digit in front, or with a final "\n"
TimeInputs ==
    DigitStrings
    \cup {Slice(t, 1, k) \o <<":">> \o Slice(t, k + 1, Len(t)) :
            t \in DigitStrings, k \in 0..MaxDigits}
    \cup {<<c>> \o t : c \in {"x", "-"}, t \in DigitStrings}
    \cup {t \o <<"\n">> : t \in DigitStrings}

InitTime ==
    /\ arg \in TimeInputs
    /\ today_year \in Years
    /\ pc = "ready"
    /\ error = NoError
    /\ entry_line = NoEntry
    /\ date_value = NoDate
    /\ time_value = NoTime
    /\ NoParse
    /\ NoSheet

call_parse_time ==
    /\ pc = "ready"
    /\ LET r == parse_time(arg)
       IN  /\ pc' = IF r.exc = "none" THEN "done" ELSE "raised"
           /\ error' = [NoError EXCEPT !.exc = r.exc]
           /\ time_value' = r.time
    /\ UNCHANGED <<parse_vars, today_year, arg, entry_line, date_value,
                   sheet_vars>>

NextTime == call_parse_time

SpecTime == InitTime /\ [][NextTime]_vars

\* the characters of s other than the colon
WithoutColon(s) == SelectSeq(s, LAMBDA c : c # ":")

\* the time read from the digits t: the last two are the minutes, all the
\* digits before them are the hours
LeadingHours(t) == int(Slice(t, 1, Len(t) - 2))

LastMinutes(t) == int(Slice(t, Len(t) - 1, Len(t)))

\* what parse_time(s) is said to do
TimeRead(s) ==
    LET body(t) ==
          IF Len(t) < 3 \/ \E i \in 1..Len(t) : t[i] \notin Digits
          THEN [exc |-> "ValueError", time |-> NoTime]
          ELSE IF LeadingHours(t) > 23 \/ LastMinutes(t) > 59
          THEN [exc |-> "ValueError", time |-> NoTime]
          ELSE [exc |-> "none",
                time |-> [h |-> LeadingHours(t), m |-> LastMinutes(t)]]
    IN  body(WithoutColon(s))

\* C16: parse_time removes the colon, takes the last two digits as the
\* minutes and all the remaining leading digits as the hours; it raises
\* ValueError when fewer than 3 digits remain, when a non-digit remains, or
\* when the hour is above 23 or the minute above 59.
C16_ParseTime ==
    pc # "ready"
    => /\ error.exc = TimeRead(arg).exc
       /\ time_value = TimeRead(arg).time

\* the same for the strings that leave at most four characters and do not
\* end with "\n"
C16_FourDigits ==
    (pc # "ready" /\ Len(WithoutColon(arg)) <= 4
     /\ arg[Len(arg)] # "\n")
    => /\ error.exc = TimeRead(arg).exc
       /\ time_value = TimeRead(arg).time

\* `124` followed by "\n" is returned as 12:04
C16_FinalNewline ==
    /\ pc = "done"
    /\ arg = <<"1", "2", "4", "\n">>
    /\ time_value = [h |-> 12, m |-> 4]

\* `10000` is returned as 10:00
C16_FiveDigits ==
    /\ pc = "done"
    /\ arg = <<"1", "0", "0", "0", "0">>
    /\ time_value = [h |-> 10, m |-> 0]

\* the string read as three groups of digits separated by two single
\* characters that are not word characters, and nothing else
Fields(s) ==
    LET e1 == RunEnd(s, 1, Digits)
        e2 == RunEnd(s, e1 + 2, Digits)
        e3 == RunEnd(s, e2 + 2, Digits)
    IN  [ok |-> /\ e1 >= 1 /\ e2 >= e1 + 2 /\ e3 >= e2 + 2 /\ e3 = Len(s)
                /\ s[e1 + 1] \notin WordChars /\ s[e2 + 1] \notin WordChars,
         n1 |-> Slice(s, 1, e1),
         n2 |-> Slice(s, e1 + 2, e2),
         n3 |-> Slice(s, e2 + 2, e3)]

Date(y, m, d) == [y |-> y, m |-> m, d |-> d]

\* the characters of s after its first and after its second group of digits
\* ("" where s has ended)
Gaps(s) ==
    LET at(i) == IF i \in 1..Len(s) THEN s[i] ELSE ""
        gaps(e1) == <<at(e1 + 1), at(RunEnd(s, e1 + 2, Digits) + 1)>>
    IN  gaps(RunEnd(s, 1, Digits))

\* C17: extract_date recognises a date only when each of the two gaps
\* between the three number groups is a single non-word character; with a
\* missing separator, or a letter, a digit or an underscore in a separator
\* position, it raises ValueError.
C17_Separators ==
    pc # "ready"
    => /\ error.exc \in {"none", "ValueError"}
       /\ error.exc = "none"
          => /\ Gaps(arg)[1] \notin WordChars \cup {""}
             /\ Gaps(arg)[2] \notin WordChars \cup {""}

\* `05a04_2010` is returned as the 5th of April 2010
C17_LetterSeparator ==
    /\ pc = "done"
    /\ arg = <<"0", "5", "a", "0", "4", "_", "2", "0", "1", "0">>
    /\ date_value = [y |-> 2010, m |-> 4, d |-> 5]

\* C7: extract_date returns the literal calendar date: (yyyy, m, d) for
\* d<sep>m<sep>yyyy and for yyyy<sep>m<sep>d, and
\* (currentYear - currentYear % 1000 + yy, m, d) for d<sep>m<sep>yy, for
\* every valid date, with a day and a month of one or two digits.
C7_LiteralDate ==
    (pc # "ready" /\ Fields(arg).ok) =>
       LET f == Fields(arg)
           a == int(f.n1)
           b == int(f.n2)
           c == int(f.n3)
           millennium == today_year - (today_year % 1000)
           short == Len(f.n1) \in {1, 2} /\ Len(f.n2) \in {1, 2}
       IN  /\ (short /\ Len(f.n3) = 4 /\ ValidDate(c, b, a))
              => pc = "done" /\ date_value = Date(c, b, a)
           /\ (Len(f.n1) = 4 /\ Len(f.n2) \in {1, 2} /\ Len(f.n3) \in {1, 2}
               /\ ValidDate(a, b, c))
              => pc = "done" /\ date_value = Date(a, b, c)
           /\ (short /\ Len(f.n3) = 2 /\ ValidDate(millennium + c, b, a))
              => pc = "done" /\ date_value = Date(millennium + c, b, a)

\* 5/4/99 read in 1999: the year is 1000 + 99
C7_Witness ==
    /\ pc = "done"
    /\ today_year = 1999
    /\ arg = <<"0", "5", "/", "0", "4", "/", "9", "9">>
    /\ date_value = Date(1099, 4, 5)

(***************************************************************************)
(* Timesheets: a date header followed by entry lines, comments and date    *)
(* headers                                                                 *)
(***************************************************************************)
MaxEntries == 3

SheetHeader == <<"1", ".", "1", ".", "1", "0">>

SheetLines ==
    { <<"2", ".", "1", ".", "1", "0">>,
      <<"#", " ", "c">>,
      <<"a", " ", "9", ":", "0", "0", "-", "1", "0", ":", "0", "0", " ", "b">>,
      <<"a", " ", "-", "1", "1", ":", "0", "0", " ", "b">>,
      <<"c", " ", "-", "1", "2", ":", "3", "0", " ", "b">>,
      <<"a", " ", "1", "0", ":", "0", "0", "-", "?", " ", "b">>,
      <<"a", " ", "2", " ", "b">>,
      <<"a", " ", "2", " ", "b", " ", "3", " ", "c">> }

SheetTexts ==
    {JoinLines(<<SheetHeader>> \o ls) :
        ls \in UNION {[1..n -> SheetLines] : n \in 0..MaxEntries}}

InitSheet ==
    /\ input \in SheetTexts
    /\ today_year = 2026
    /\ pc = "ready"
    /\ lines = <<>>
    /\ lineno = 0
    /\ yielded = <<>>
    /\ current_date = NoDate
    /\ collection = <<>>
    /\ error = NoError
    /\ NoCall
    /\ NoSheet

SpecSheet == InitSheet /\ [][Next]_vars

\* the lines of the text as a reader classifies them, and the duration
\* written on an entry line
IsEntry(raw) == ~IsBlankOrComment(raw) /\ ~IsDate(raw)

WrittenDuration(raw) == DurationValue(SecondToken(CleanLine(raw)))

\* the nearest entry line before line i, after the last date header before
\* line i (0: none)
PreviousEntryLine(i) ==
    LET ds == {j \in 1..(i - 1) : IsDate(lines[j])}
        from == IF ds = {} THEN 1 ELSE Max(ds) + 1
        es == {j \in from..(i - 1) : IsEntry(lines[j])}
    IN  IF es = {} THEN 0 ELSE Max(es)

HasEnd(d) == d.kind = "range" /\ d.end # NoTime

ContinuesPrevious(d) == d.kind = "range" /\ d.start = NoTime /\ d.end # NoTime

\* C10: an entry written without start and with end e starts at the end of
\* the nearest previous entry of its section when that entry is a range with
\* an end (written with or without start), and lasts e minus that start;
\* otherwise (no previous entry, a fixed duration, no end) it is ignored;
\* every entry line of a text that parses is in the collection.
C10_GapFill ==
    pc = "built" =>
       /\ {collection[n].line : n \in 1..Len(collection)}
             = {i \in 1..Len(lines) : IsEntry(lines[i])}
       /\ \A n \in 1..Len(collection) :
             LET c == collection[n]
                 d == WrittenDuration(lines[c.line])
                 p == PreviousEntryLine(c.line)
             IN  ContinuesPrevious(d) =>
                    IF p # 0 /\ HasEnd(WrittenDuration(lines[p]))
                    THEN /\ c.start = WrittenDuration(lines[p]).end
                         /\ c.minutes = Minutes(d.end) - Minutes(c.start)
                    ELSE c.ignored

\* a chain: 9:00-10:00, then -11:00, then -12:30, which starts at 11:00
C10_Witness ==
    /\ pc = "built"
    /\ Len(collection) = 3
    /\ ContinuesPrevious(WrittenDuration(lines[collection[2].line]))
    /\ ContinuesPrevious(WrittenDuration(lines[collection[3].line]))
    /\ collection[2].start = [h |-> 10, m |-> 0]
    /\ collection[3].start = [h |-> 11, m |-> 0]
    /\ collection[3].minutes = 90
    /\ ~collection[3].ignored

(***************************************************************************)
(* Timesheet (taxi/timesheet): get_entries(regroup=True) on the entries of *)
(* the collection.  Within a date section the entries that have the same   *)
(* alias, the same description and the same ignored state are merged into  *)
(* one aggregated entry, in the order of their first occurrence.           *)
(***************************************************************************)
\* the sum of two numbers of hours
AddHours(a, b) == Fraction(a.num * b.den + b.num * a.den, a.den * b.den)

\* TimesheetEntry.hours of the collected entry c: the fixed duration, or the
\* time from start to end of a range whose bounds are both known
EntryHours(ys, c) ==
    LET d == ys[c.line].entry.duration
    IN  IF d.kind = "hours" THEN d.hours
        ELSE IF c.start # NoTime /\ d.end # NoTime
        THEN Fraction(c.minutes, 60)
        ELSE Fraction(0, 1)

\* the aggregated entry made of the collected entry c alone
AggregatedTimesheetEntry(ys, c) ==
    [section |-> SectionOf(ys, c.line),
     date |-> c.date,
     alias |-> ys[c.line].entry.alias,
     description |-> ys[c.line].entry.description,
     ignored |-> c.ignored,
     hours |-> EntryHours(ys, c),
     entries |-> <<c.line>>]

\* the collected entry c belongs to the aggregated entry g
SameGroup(ys, g, c) ==
    /\ g.section = SectionOf(ys, c.line)
    /\ g.alias = ys[c.line].entry.alias
    /\ g.description = ys[c.line].entry.description
    /\ g.ignored = c.ignored

\* the aggregated entries acc, with the collected entries cs[i..] added
RECURSIVE Regroup(_, _, _, _)
Regroup(ys, cs, i, acc) ==
    IF i > Len(cs) THEN acc
    ELSE LET add(c, same) ==
                 IF same = {} THEN Append(acc, AggregatedTimesheetEntry(ys, c))
                 ELSE [acc EXCEPT
                          ![Min(same)].hours = AddHours(@, EntryHours(ys, c)),
                          ![Min(same)].entries = Append(@, c.line)]
             with(c) ==
                 add(c, {k \in 1..Len(acc) : SameGroup(ys, acc[k], c)})
         IN  Regroup(ys, cs, i + 1, with(cs[i]))

\* Timesheet.get_entries(regroup=True) on the collection
get_entries ==
    /\ pc = "built"
    /\ regrouped' = Regroup(yielded, collection, 1, <<>>)
    /\ pc' = "regrouped"
    /\ UNCHANGED <<input, today_year, lines, lineno, yielded, current_date,
                   collection, error, call_vars, target, direction,
                   start_vars>>

\* the lines ys after `pushed = True` on the aggregated entry g: the setter
\* is called on every entry merged into g, which sets the flag on its line
PushedLines(ys, g) ==
    [i \in 1..Len(ys) |->
        IF \E k \in 1..Len(g.entries) : g.entries[k] = i
        THEN [ys[i] EXCEPT !.entry = SetFlag(@, FLAG_PUSHED, TRUE).entry]
        ELSE ys[i]]

\* pushed = True on one of the aggregated entries returned by get_entries
set_aggregated_pushed ==
    /\ pc = "regrouped"
    /\ \E k \in 1..Len(regrouped) :
          /\ target' = k
          /\ yielded' = PushedLines(yielded, regrouped[k])
    /\ pc' = "pushed"
    /\ UNCHANGED <<input, today_year, lines, lineno, current_date,
                   collection, error, call_vars, regrouped, direction,
                   start_vars>>

\* EntriesCollection.to_lines: the text of every line, in order
to_lines(ys) == [i \in 1..Len(ys) |-> LineText(ys[i])]

\* the date a is before the date b
Earlier(a, b) ==
    \/ a.y < b.y
    \/ a.y = b.y /\ a.m < b.m
    \/ a.y = b.y /\ a.m = b.m /\ a.d < b.d

\* what EntriesCollection.is_top_down can return or raise on the lines ys:
\* the dates of the first and of the last date header are compared; two
\* headers of the same date are a case the specification leaves open
is_top_down_results(ys) ==
    LET headers == {i \in 1..Len(ys) : ys[i].kind = "DateLine"}
        compare(first, last) ==
            IF Earlier(first, last) THEN {"True"}
            ELSE IF Earlier(last, first) THEN {"False"}
            ELSE {"True", "False", "UnknownDirectionError"}
    IN  IF Cardinality(headers) < 2 THEN {"UnknownDirectionError"}
        ELSE compare(ys[Min(headers)].date, ys[Max(headers)].date)

\* EntriesCollection.is_top_down()
is_top_down ==
    /\ pc = "built"
    /\ direction' \in is_top_down_results(yielded)
    /\ pc' = "asked"
    /\ UNCHANGED <<input, today_year, lines, lineno, yielded, current_date,
                   collection, error, call_vars, regrouped, target,
                   start_vars>>

\* the lines of a timesheet: date headers after and before the first one,
\* entries with the same and with different aliases, descriptions and
\* ignored states, fixed durations and ranges
TimesheetLines ==
    { <<"2", ".", "1", ".", "1", "0">>,
      <<"3", "1", ".", "1", "2", ".", "0", "9">>,
      <<"a", " ", "2", " ", "b">>,
      <<"a", " ", "1", ".", "5", " ", "b">>,
      <<"c", " ", "2", " ", "b">>,
      <<"a", " ", "2", " ", "d">>,
      <<"?", " ", "a", " ", "2", " ", "b">>,
      <<"a", " ", "9", ":", "0", "0", "-", "1", "0", ":", "0", "0", " ", "b">>,
      <<"a", " ", "-", "1", "1", ":", "0", "0", " ", "b">>,
      <<"a", " ", "2", " ", "b", " ", "3", " ", "c">> }

TimesheetTexts ==
    {JoinLines(<<SheetHeader>> \o ls) :
        ls \in UNION {[1..n -> TimesheetLines] : n \in 0..MaxEntries}}

InitTimesheet ==
    /\ input \in TimesheetTexts
    /\ today_year = 2026
    /\ pc = "ready"
    /\ lines = <<>>
    /\ lineno = 0
    /\ yielded = <<>>
    /\ current_date = NoDate
    /\ collection = <<>>
    /\ error = NoError
    /\ NoCall
    /\ NoSheet

NextTimesheet ==
    parse \/ parser \/ EntriesCollection \/ get_entries
    \/ set_aggregated_pushed \/ is_top_down

SpecTimesheet == InitTimesheet /\ [][NextTimesheet]_vars

\* the entry lines among the lines yielded, the section of each, and the
\* ignored state and the hours of each as the collection holds them
EntryLines == {i \in 1..Len(yielded) : yielded[i].kind = "EntryLine"}

Collected(i) ==
    collection[CHOOSE n \in 1..Len(collection) : collection[n].line = i]

HeaderOf(i) == Max({0} \cup {j \in 1..(i - 1) : yielded[j].kind = "DateLine"})

\* ignored: flagged as ignored, a range without a known start or end, a
\* fixed duration of zero hours, or the description `?`
IgnoredState(i) ==
    LET e == yielded[i].entry
    IN  \/ FLAG_IGNORED \in e.flags
        \/ /\ e.duration.kind = "range"
           /\ Collected(i).start = NoTime \/ e.duration.end = NoTime
        \/ e.duration.kind = "hours" /\ e.duration.hours.num = 0
        \/ e.description = <<"?">>

HoursOf(i) ==
    LET d == yielded[i].entry.duration
        c == Collected(i)
    IN  IF d.kind = "hours" THEN d.hours
        ELSE IF c.start # NoTime /\ d.end # NoTime
        THEN Fraction(Minutes(d.end) - Minutes(c.start), 60)
        ELSE Fraction(0, 1)

Triple(i) ==
    <<HeaderOf(i), yielded[i].entry.alias, yielded[i].entry.description,
      IgnoredState(i)>>

RECURSIVE SumOfHours(_)
SumOfHours(S) ==
    IF S = {} THEN Fraction(0, 1)
    ELSE LET i == Min(S) IN AddHours(HoursOf(i), SumOfHours(S \ {i}))

Constituents(g) == {g.entries[k] : k \in 1..Len(g.entries)}

\* C11: get_entries(regroup=True) returns, for each date section, one
\* aggregated entry per distinct (alias, description, ignored state), in the
\* order of first occurrence; its duration is the sum of the hours of its
\* constituents; entries that differ in alias, description or ignored state,
\* or that are in different date sections, are never merged.
C11_Regroup ==
    pc = "regrouped" =>
       /\ \A i \in EntryLines :
             \E k \in 1..Len(regrouped) : i \in Constituents(regrouped[k])
       /\ \A k \in 1..Len(regrouped) :
             LET g == regrouped[k]
             IN  /\ Constituents(g) # {}
                 /\ Constituents(g) =
                       {i \in EntryLines : Triple(i) = Triple(g.entries[1])}
                 /\ g.date = yielded[HeaderOf(g.entries[1])].date
                 /\ g.alias = yielded[g.entries[1]].entry.alias
                 /\ g.description = yielded[g.entries[1]].entry.description
                 /\ g.hours = SumOfHours(Constituents(g))
       /\ \A k, l \in 1..Len(regrouped) :
             k < l => Min(Constituents(regrouped[k]))
                         < Min(Constituents(regrouped[l]))

\* `a 2 b`, `c 2 b`, `a 1.5 b`: two aggregated entries, the first of 3.5 hours
C11_Witness ==
    /\ pc = "regrouped"
    /\ Len(regrouped) = 2
    /\ regrouped[1].entries = <<2, 4>>
    /\ regrouped[1].hours = [num |-> 7, den |-> 2]
    /\ regrouped[2].entries = <<3>>
    /\ regrouped[2].alias = <<"c">>

\* the line l with `=` in front: added to its flags token, or as a flags
\* token of its own followed by one space
WithPushedInFront(l) ==
    IF AllIn(FirstToken(l), {"?", "="})
    THEN FirstToken(l) \o <<"=">> \o Slice(l, Len(FirstToken(l)) + 1, Len(l))
    ELSE <<"=", " ">> \o l

\* C12: pushed = True on an aggregated entry returned by
\* get_entries(regroup=True) sets the Pushed flag on every entry line merged
\* into it and on no other line: to_lines() then shows `=` in front of each
\* of those original lines and every other line unchanged.
C12_PushedAggregate ==
    pc = "pushed" =>
       \A i \in 1..Len(yielded) :
          IF i \in Constituents(regrouped[target])
          THEN /\ FLAG_PUSHED \in yielded[i].entry.flags
               /\ to_lines(yielded)[i] = WithPushedInFront(lines[i])
          ELSE /\ FLAG_PUSHED \notin yielded[i].entry.flags
               /\ to_lines(yielded)[i] = lines[i]

\* the date headers of the text, and the date written on a header of the
\* form d.m.yy as a number that grows with the date
DateHeaders == {i \in 1..Len(lines) : IsDate(lines[i])}

WrittenDay(l) ==
    LET f == Fields(l)
    IN  (2000 + int(f.n3)) * 10000 + int(f.n2) * 100 + int(f.n1)

\* C13: is_top_down compares the dates of the first and of the last date
\* header: True when the first is earlier than the last, False when it is
\* later (also when the sections have no entries), UnknownDirectionError when
\* the timesheet has a single date section.
C13_IsTopDown ==
    pc = "asked" =>
       LET first == lines[Min(DateHeaders)]
           last == lines[Max(DateHeaders)]
       IN  /\ Cardinality(DateHeaders) = 1
              => direction = "UnknownDirectionError"
           /\ (Cardinality(DateHeaders) > 1
               /\ WrittenDay(first) < WrittenDay(last))
              => direction = "True"
           /\ (Cardinality(DateHeaders) > 1
               /\ WrittenDay(first) > WrittenDay(last))
              => direction = "False"

\* 1.1.10, 2.1.10 and then 31.12.09, without entries: not top down
C13_Witness ==
    /\ pc = "asked"
    /\ Len(lines) = 3
    /\ Cardinality(DateHeaders) = 3
    /\ WrittenDay(lines[2]) > WrittenDay(lines[1])
    /\ WrittenDay(lines[3]) < WrittenDay(lines[1])
    /\ direction = "False"

(***************************************************************************)
(* The start command (taxi/commands/start.py).  The timesheet is loaded by *)
(* parse and EntriesCollection; start then goes on from the collection, or *)
(* from the ParseError that the loading raised.                            *)
(***************************************************************************)
\* ' '.join(words)
RECURSIVE join(_)
join(words) ==
    IF Len(words) = 0 THEN <<>>
    ELSE IF Len(words) = 1 THEN words[1]
    ELSE words[1] \o <<" ">> \o join(Tail(words))

\* t.entries.filter(date=today)[today]: the entry lines of the collection
\* whose date is `date`, in order (empty when there is none)
RECURSIVE filter(_, _, _, _)
filter(ys, cs, i, date) ==
    IF i > Len(cs) THEN <<>>
    ELSE (IF cs[i].date = date THEN <<ys[cs[i].line].entry>> ELSE <<>>)
         \o filter(ys, cs, i + 1, date)

\* new_entry_start_time taken from the first element of the last duration
new_entry_start_time_FirstBound(today_entries, now) ==
    IF /\ Len(today_entries) > 0
       /\ today_entries[Len(today_entries)].duration.kind = "range"
       /\ today_entries[Len(today_entries)].duration.start # NoTime
    THEN today_entries[Len(today_entries)].duration.start
    ELSE now

\* new_entry_start_time: the end of the last entry of today when its duration
\* is a tuple whose second element is not None, the current time otherwise
new_entry_start_time(today_entries, now) ==
    IF /\ Len(today_entries) > 0
       /\ today_entries[Len(today_entries)].duration.kind = "range"
       /\ today_entries[Len(today_entries)].duration.end # NoTime
    THEN today_entries[Len(today_entries)].duration.end
    ELSE now

\* Entry(alias, duration, description)
Entry(alias, duration, description) ==
    [alias |-> alias, duration |-> duration, description |-> description]

\* the arguments of the command, the day and the time at which it runs
StartAliases == { <<"c">> }

StartDescriptions ==
    { <<>>, << <<"b">> >>, << <<"b">>, <<"c", "d">> >> }

StartDays ==
    { [y |-> 2010, m |-> 1, d |-> 1], [y |-> 2010, m |-> 1, d |-> 2],
      [y |-> 2010, m |-> 1, d |-> 3] }

StartTimes == { [h |-> 8, m |-> 30], [h |-> 0, m |-> 0] }

\* start(ctx, alias, description, f) once the timesheet is loaded
start ==
    /\ pc = "built"
    /\ \E alias \in StartAliases, description \in StartDescriptions,
          today \in StartDays, now \in StartTimes :
          LET append(today_entries) ==
                  appended' =
                     Append(appended,
                            [date |-> today,
                             entry |->
                                Entry(alias,
                                      Range(new_entry_start_time(
                                                today_entries, now),
                                            NoTime),
                                      IF description # <<>>
                                      THEN join(description)
                                      ELSE <<"?">>)])
          IN  /\ command' = [alias |-> alias, description |-> description,
                             today |-> today, now |-> now]
              /\ append(filter(yielded, collection, 1, today))
    /\ saved' = TRUE
    /\ pc' = "started"
    /\ UNCHANGED <<input, today_year, lines, lineno, yielded, current_date,
                   collection, error, call_vars, query_vars, view>>

\* the try statement of start with a handler that returns without calling
\* the view
start_ParseError_Silent ==
    /\ pc = "raised"
    /\ \E caught \in IF error.exc = "ParseError" THEN BOOLEAN ELSE {FALSE} :
          pc' = IF caught THEN "reported" ELSE "propagated"
    /\ UNCHANGED <<input, today_year, lines, lineno, yielded, current_date,
                   collection, error, call_vars, query_vars, command,
                   appended, saved, view>>

\* the try statement of start when the loading has raised.  The handler is
\* for the class ParseError of taxi.exceptions; whether the ParseError the
\* parser raises (parser.py) is an instance of that class is not decided by
\* the code modelled here, so both outcomes are possible.  When the
\* exception is caught: ctx.obj['view'].err(e); return.  When it is not
\* (any ValueError, or a ParseError of another class), it leaves start.
start_ParseError ==
    /\ pc = "raised"
    /\ \E caught \in IF error.exc = "ParseError" THEN BOOLEAN ELSE {FALSE} :
          /\ view' = IF caught THEN Append(view, error) ELSE view
          /\ pc' = IF caught THEN "reported" ELSE "propagated"
    /\ UNCHANGED <<input, today_year, lines, lineno, yielded, current_date,
                   collection, error, call_vars, query_vars, command,
                   appended, saved>>

\* the lines of the timesheet the command loads: a second date header,
\* entries with a fixed duration, with a range, without start, without end,
\* a line that is not an entry and a range whose end is not a time
StartLines ==
    { <<"2", ".", "1", ".", "1", "0">>,
      <<"#", " ", "c">>,
      <<"a", " ", "2", " ", "b">>,
      <<"a", " ", "9", ":", "0", "0", "-", "1", "0", ":", "0", "0", " ", "b">>,
      <<"a", " ", "-", "1", "1", ":", "0", "0", " ", "b">>,
      <<"a", " ", "1", "0", ":", "0", "0", "-", "?", " ", "b">>,
      <<"a">>,
      <<"a", " ", "9", ":", "0", "0", "-", "2", "5", ":", "0", "0", " ", "b">> }

StartTexts ==
    {JoinLines(<<SheetHeader>> \o ls) :
        ls \in UNION {[1..n -> StartLines] : n \in 0..MaxEntries}}

InitStart ==
    /\ input \in StartTexts
    /\ today_year = 2026
    /\ pc = "ready"
    /\ lines = <<>>
    /\ lineno = 0
    /\ yielded = <<>>
    /\ current_date = NoDate
    /\ collection = <<>>
    /\ error = NoError
    /\ NoCall
    /\ NoSheet

NextStart ==
    parse \/ parser \/ EntriesCollection \/ start \/ start_ParseError

SpecStart == InitStart /\ [][NextStart]_vars

\* the entry lines of the text under the date headers of the day of the
\* command, and the time the new entry is expected to start at
DayNumber(date) == date.y * 10000 + date.m * 100 + date.d

HeaderLine(i) == Max({0} \cup {j \in 1..(i - 1) : IsDate(lines[j])})

TodayLines ==
    {i \in 1..Len(lines) :
        /\ IsEntry(lines[i])
        /\ HeaderLine(i) # 0
        /\ WrittenDay(lines[HeaderLine(i)]) = DayNumber(command.today)}

ExpectedStart ==
    IF TodayLines # {} /\ HasEnd(WrittenDuration(lines[Max(TodayLines)]))
    THEN WrittenDuration(lines[Max(TodayLines)]).end
    ELSE command.now

RECURSIVE WordsWithSpaces(_, _)
WordsWithSpaces(words, k) ==
    IF k = 0 THEN <<>>
    ELSE WordsWithSpaces(words, k - 1)
         \o (IF k = 1 THEN <<>> ELSE <<" ">>) \o words[k]

\* the state after start: one entry appended under the day of the command
Started ==
    /\ Len(appended) = 1
    /\ saved
    /\ appended[1].date = command.today
    /\ appended[1].entry.alias = command.alias
    /\ appended[1].entry.description =
          (IF Len(command.description) = 0 THEN <<"?">>
           ELSE WordsWithSpaces(command.description,
                                Len(command.description)))
    /\ appended[1].entry.duration.kind = "range"
    /\ appended[1].entry.duration.end = NoTime
    /\ appended[1].entry.duration.start = ExpectedStart

\* the entries already present are those of the lines of the text, as they
\* were parsed and collected
PresentUnchanged ==
    /\ Len(yielded) = Len(lines)
    /\ \A i \in 1..Len(lines) :
          IsEntry(lines[i])
          => yielded[i] = EntryLineOf(parse_entry_line(lines[i]).entry)
    /\ collection = CollectFrom(yielded, 1)

\* C14: start appends exactly one entry to the date section of today and
\* saves the timesheet: the entry has the alias given, the description given
\* (words joined by one space, `?` when none) and a range without end that
\* starts at the end of the last entry of today when that entry is a range
\* with an end, at the current time otherwise; the entries already present
\* are not changed.
C14_Start == pc = "started" => Started /\ PresentUnchanged

\* started on 1.1.10 after `a 9:00-10:00 b` and `a -11:00 b`: from 11:00
C14_Witness ==
    /\ pc = "started"
    /\ Len(lines) = 3
    /\ TodayLines = {2, 3}
    /\ command.description = << <<"b">>, <<"c", "d">> >>
    /\ appended[1].entry.description = <<"b", " ", "c", "d">>
    /\ appended[1].entry.duration.start = [h |-> 11, m |-> 0]

(* The lines built by their constructors: TextLine(text),                  *)
(* DateLine(date, text, date_format) and EntryLine(alias, duration,        *)
(* description, flags, text), and the text assigned afterwards             *)
(***************************************************************************)
InitLine ==
    /\ today_year = 2026
    /\ pc = "ready"
    /\ error = NoError
    /\ NoCall
    /\ NoParse
    /\ NoSheet

new_TextLine ==
    /\ pc = "ready"
    /\ \E text \in { <<>>, <<"#", " ", "c">> } :
          yielded' = <<TextLine(text)>>
    /\ pc' = "new"
    /\ UNCHANGED <<input, today_year, lines, lineno, current_date,
                   collection, error, call_vars, sheet_vars>>

new_DateLine ==
    /\ pc = "ready"
    /\ \E date \in StartDays,
          text \in {None, <<"1", ".", "1", ".", "1", "0">>},
          date_format \in {DATE_FORMAT,
                           <<"%", "Y", "/", "%", "m", "/", "%", "d">>} :
          yielded' = <<DateLine(date, text, date_format)>>
    /\ pc' = "new"
    /\ UNCHANGED <<input, today_year, lines, lineno, current_date,
                   collection, error, call_vars, sheet_vars>>

new_EntryLine ==
    /\ pc = "ready"
    /\ \E alias \in AliasValues, duration \in DurationValues,
          flags \in SUBSET {FLAG_IGNORED, FLAG_PUSHED},
          text \in {None, <<>>,
                    <<<<>>, <<>>, <<"a">>, <<" ", " ", " ">>, <<"4">>,
                      <<" ">>, <<"b">>>>} :
          yielded' = <<EntryLineOf(EntryLine(alias, duration, <<"b">>, flags,
                                            text))>>
    /\ pc' = "new"
    /\ UNCHANGED <<input, today_year, lines, lineno, current_date,
                   collection, error, call_vars, sheet_vars>>

NextLine == new_TextLine \/ new_DateLine \/ new_EntryLine \/ set_text

SpecLine == InitLine /\ [][NextLine]_vars

====
